---- MODULE Spec2Model ----
(***************************************************************************)
(* Carnet de recettes (src/recette.py): the SQLite table "recettes" with   *)
(* its data-access functions, the images directory, and the handlers of    *)
(* RecetteApp that tie the two together.                                   *)
(*                                                                         *)
(* Text is a sequence of Unicode code points (97 is "a", 66 is "B", 201 is *)
(* "E acute capital", 233 is "e acute small", 37 is "%", 95 is "_", 32 is  *)
(* a space).  UTF-8 keeps the code point order, so SQLite's byte-wise      *)
(* comparisons are comparisons of code points.                             *)
(***************************************************************************)
EXTENDS Integers, Sequences, FiniteSets, TLC

VARIABLES
    recettes,       \* the rows of table recettes (a set of records)
    sqlite_seq,     \* sqlite_sequence.seq of the AUTOINCREMENT key
    returned_ids,   \* history: the ids add_recipe_db has returned so far
    files,          \* the filesystem: each path's content, or "absent"
    now,            \* the wall clock, in milliseconds
    current_recipe_id,      \* RecetteApp.current_recipe_id (0 is None)
    current_image_path,     \* RecetteApp.current_image_path
    form,           \* the input widgets: name, ingredients, steps, prep_time, category
    list_items,     \* list_widget: the rows shown, each <<id, name, category>>; the
                    \* handlers read the order of the list only as they fill it
    current_item,   \* the id the list's current item carries (0: no current item)
    last            \* the last call: its name and arguments, what it returned,
                    \* and the exception it raised or the message box it showed

vars == <<recettes, sqlite_seq, returned_ids, files, now, current_recipe_id,
          current_image_path, form, list_items, current_item, last>>

store_vars == <<recettes, sqlite_seq, returned_ids>>

ui_vars == <<current_recipe_id, current_image_path, form, list_items, current_item>>

(***************************************************************************)
(* Bounds of the model.                                                    *)
(***************************************************************************)
MaxId == 2

MaxClock == 1

(***************************************************************************)
(* Values.                                                                 *)
(***************************************************************************)
\* SQL NULL / Python None in a text column (-1 is no code point).
NULL == <<-1>>

\* A path: the directory it resolves to, and the file's stem and extension.
\* PathNone is None (NULL in column image_path).
PathNone == [dir |-> "none", stem |-> 0, ext |-> ""]

IMAGES_DIR == "images"

CATEGORIES == <<"Entree", "Plat", "Dessert", "Boisson", "Autre">>

\* The files a user may pick in the file dialog, and a file a row may name
\* without the application having put it there.
SourceFiles == { [dir |-> "elsewhere", stem |-> 1, ext |-> ".png"] }

HostsFile == [dir |-> "elsewhere", stem |-> 3, ext |-> ""]

\* images/img_<milliseconds><ext>
ManagedPath(ms, ext) == [dir |-> IMAGES_DIR, stem |-> ms, ext |-> ext]

ManagedPaths == { ManagedPath(ms, f.ext) : ms \in 0..MaxClock, f \in SourceFiles }

AllPaths == ManagedPaths \cup SourceFiles \cup {HostsFile}

\* What a file outside the images directory holds.
Content(p) == IF p = HostsFile THEN "hosts" ELSE "photo"

\* get_recipe_by_id's result for an id that is not in the table (None).
NoRow == <<>>

\* category_filter None (or ""): both are false in the test of line 107.
NoFilter == ""

Max(a, b) == IF a >= b THEN a ELSE b

Min(a, b) == IF a <= b THEN a ELSE b

(***************************************************************************)
(* SQLite: the NOCASE collation, LIKE, AUTOINCREMENT.                      *)
(***************************************************************************)
\* sqlite3UpperToLower: only the 26 ASCII capitals are folded.
NocaseFold(c) == IF c \in 65..90 THEN c + 32 ELSE c

\* a sorts strictly before b under COLLATE NOCASE: the first folded code
\* point that differs decides, and a proper prefix sorts first.
NocaseLess(a, b) ==
    \E i \in 1..(Min(Len(a), Len(b)) + 1) :
        /\ \A k \in 1..(i - 1) : NocaseFold(a[k]) = NocaseFold(b[k])
        /\ \/ i > Len(a) /\ i <= Len(b)
           \/ i <= Len(a) /\ i <= Len(b) /\ NocaseFold(a[i]) < NocaseFold(b[i])

\* The orders in which SELECT ... ORDER BY name COLLATE NOCASE may return the
\* rows of S: every arrangement with no row before one that sorts strictly
\* before it (SQLite leaves the order of ties unspecified).
OrderByNameNocase(S) ==
    { s \in [1..Cardinality(S) -> S] :
        /\ \A i, j \in 1..Cardinality(S) : i # j => s[i] # s[j]
        /\ \A i, j \in 1..Cardinality(S) :
               i < j => ~NocaseLess(s[j].name, s[i].name) }

\* patternCompare of the LIKE operator: "%" (37) matches any run of
\* characters, "_" (95) any one character, ASCII letters match in either
\* case; there is no escape character.
RECURSIVE LikeMatch(_, _)
LikeMatch(p, s) ==
    IF p = <<>> THEN s = <<>>
    ELSE IF Head(p) = 37
         THEN LikeMatch(Tail(p), s) \/ (s # <<>> /\ LikeMatch(p, Tail(s)))
         ELSE /\ s # <<>>
              /\ \/ Head(p) = 95
                 \/ Head(p) = Head(s)
                 \/ /\ Head(p) < 128
                    /\ Head(s) < 128
                    /\ NocaseFold(Head(p)) = NocaseFold(Head(s))
              /\ LikeMatch(Tail(p), Tail(s))

\* x LIKE pattern as a WHERE term: NULL LIKE ... is NULL, which selects nothing.
Like(x, pattern) == x # NULL /\ LikeMatch(pattern, x)

RowIds(rows) == { r.id : r \in rows }

MaxRowid(rows) ==
    IF rows = {} THEN 0 ELSE CHOOSE m \in RowIds(rows) : \A i \in RowIds(rows) : i <= m

\* The plain INTEGER PRIMARY KEY rule, without AUTOINCREMENT.
NextRowid_NoAutoincrement(rows, seq) == MaxRowid(rows) + 1

\* id INTEGER PRIMARY KEY AUTOINCREMENT: one more than the largest rowid the
\* table has ever held, which sqlite_sequence remembers.
NextRowid(rows, seq) == Max(seq, MaxRowid(rows)) + 1

(***************************************************************************)
(* Database helpers.                                                       *)
(***************************************************************************)
\* The columns a SELECT id, name, category returns.
Listed(r) == <<r.id, r.name, r.category>>

ListedRows(s) == [i \in DOMAIN s |-> Listed(s[i])]

\* The rows query_all_recipes() may return, one sequence per order of ties.
query_all_recipes(rows) == { ListedRows(s) : s \in OrderByNameNocase(rows) }

\* The row of get_recipe_by_id, without created_at, or NoRow.
FullRow(r) ==
    <<r.id, r.name, r.ingredients, r.steps, r.prep_time, r.category, r.image_path>>

get_recipe_by_id(rows, recipe_id) ==
    IF recipe_id \in RowIds(rows)
    THEN FullRow(CHOOSE r \in rows : r.id = recipe_id)
    ELSE NoRow

\* The rows the WHERE clause of search_recipes_by_text selects.
SearchWhere(rows, text, category_filter) ==
    LET like == <<37>> \o text \o <<37>>
        textTerm(r) == \/ Like(r.name, like)
                       \/ Like(r.ingredients, like)
                       \/ Like(r.steps, like)
    IN  IF category_filter # NoFilter /\ category_filter # "Tout"
        THEN { r \in rows : textTerm(r) /\ r.category = category_filter }
        ELSE { r \in rows : textTerm(r) }

search_recipes_by_text(rows, text, category_filter) ==
    { ListedRows(s) : s \in OrderByNameNocase(SearchWhere(rows, text, category_filter)) }

\* The row with the two free-text columns bound in the wrong order.
NewRow_SwapsTexts(id, f) ==
    [id |-> id, name |-> f.name, ingredients |-> f.steps, steps |-> f.ingredients,
     prep_time |-> f.prep_time, category |-> f.category,
     image_path |-> f.image_path]

\* The row add_recipe_db inserts: f holds the six arguments.  (Column
\* created_at is written here and by no other statement, and no statement
\* reads it: the rows of the model do not carry it.)
NewRow(id, f) ==
    [id |-> id, name |-> f.name, ingredients |-> f.ingredients, steps |-> f.steps,
     prep_time |-> f.prep_time, category |-> f.category,
     image_path |-> f.image_path]

\* The table after the INSERT of add_recipe_db.
InsertRow(rows, id, f) == rows \cup { NewRow(id, f) }

\* A row after the SET clause of update_recipe_db: the id stays.
SetRow(r, f) ==
    [r EXCEPT !.name = f.name, !.ingredients = f.ingredients, !.steps = f.steps,
              !.prep_time = f.prep_time, !.category = f.category,
              !.image_path = f.image_path]

\* The UPDATE without its WHERE clause.
UpdateRows_NoWhere(rows, recipe_id, f) == { SetRow(r, f) : r \in rows }

\* The table after UPDATE recettes SET ... WHERE id = recipe_id.
UpdateRows(rows, recipe_id, f) ==
    { IF r.id = recipe_id THEN SetRow(r, f) ELSE r : r \in rows }

\* The table after DELETE FROM recettes WHERE id = recipe_id.
DeleteRows(rows, recipe_id) == { r \in rows : r.id # recipe_id }

\* delete_recipe_db reading the row after the DELETE.
DeletedImage_ReadsAfterDelete(rows, recipe_id) == PathNone

\* What delete_recipe_db returns: row[6] if row else None.
DeletedImage(rows, recipe_id) ==
    IF recipe_id \in RowIds(rows)
    THEN (CHOOSE r \in rows : r.id = recipe_id).image_path
    ELSE PathNone

(***************************************************************************)
(* Calls of the database helpers.                                          *)
(***************************************************************************)
\* The arguments the calls are made with: mixed-case and accented names,
\* NULL and empty texts, LIKE's wildcard characters as ordinary text, and as
\* image path none, a file of the images directory, a file elsewhere.
RecipeInputs ==
    { [name |-> <<233, 97>>, ingredients |-> <<97, 66>>, steps |-> NULL,
       prep_time |-> <<50, 48>>, category |-> "Plat", image_path |-> PathNone],
      [name |-> <<201, 98>>, ingredients |-> NULL, steps |-> <<98>>,
       prep_time |-> <<>>, category |-> "Dessert",
       image_path |-> ManagedPath(0, ".png")],
      [name |-> <<66>>, ingredients |-> <<37>>, steps |-> <<95>>,
       prep_time |-> <<50>>, category |-> "Dessert", image_path |-> HostsFile],
      [name |-> <<65, 98>>, ingredients |-> <<>>, steps |-> <<97>>,
       prep_time |-> NULL, category |-> "Brunch", image_path |-> PathNone] }

\* The same with no name: the column is NOT NULL.
NamelessInput ==
    [name |-> NULL, ingredients |-> <<>>, steps |-> <<>>, prep_time |-> <<>>,
     category |-> "Plat", image_path |-> PathNone]

SearchTexts == { <<>>, <<97>>, <<95>>, <<37>> }

SearchFilters == { NoFilter, "Tout", "Dessert" }

\* Whether the INSERT or UPDATE of these fields violates name TEXT NOT NULL.
ViolatesNotNull(f) == f.name = NULL

\* add_recipe_db(name, ingredients, steps, prep_time, category, image_path)
AddRecipe(f) ==
    /\ sqlite_seq < MaxId
    /\ IF ViolatesNotNull(f)
       THEN /\ UNCHANGED store_vars
            /\ last' = [op |-> "add_recipe_db", args |-> <<f>>, ret |-> 0,
                        err |-> "IntegrityError"]
       ELSE LET new_id == NextRowid(recettes, sqlite_seq)
            IN  /\ recettes' = InsertRow(recettes, new_id, f)
                /\ sqlite_seq' = new_id
                /\ returned_ids' = returned_ids \cup {new_id}
                /\ last' = [op |-> "add_recipe_db", args |-> <<f>>, ret |-> new_id,
                            err |-> "none"]
    /\ UNCHANGED <<files, now, ui_vars>>

\* update_recipe_db(recipe_id, name, ..., image_path)
UpdateRecipe(recipe_id, f) ==
    /\ IF ViolatesNotNull(f) /\ recipe_id \in RowIds(recettes)
       THEN /\ UNCHANGED recettes
            /\ last' = [op |-> "update_recipe_db", args |-> <<recipe_id, f>>,
                        ret |-> 0, err |-> "IntegrityError"]
       ELSE /\ recettes' = UpdateRows(recettes, recipe_id, f)
            /\ last' = [op |-> "update_recipe_db", args |-> <<recipe_id, f>>,
                        ret |-> 0, err |-> "none"]
    /\ UNCHANGED <<sqlite_seq, returned_ids, files, now, ui_vars>>

\* delete_recipe_db(recipe_id)
DeleteRecipe(recipe_id) ==
    /\ recettes' = DeleteRows(recettes, recipe_id)
    /\ last' = [op |-> "delete_recipe_db", args |-> <<recipe_id>>,
                ret |-> DeletedImage(recettes, recipe_id), err |-> "none"]
    /\ UNCHANGED <<sqlite_seq, returned_ids, files, now, ui_vars>>

\* get_recipe_by_id(recipe_id)
GetRecipe(recipe_id) ==
    /\ last' = [op |-> "get_recipe_by_id", args |-> <<recipe_id>>,
                ret |-> get_recipe_by_id(recettes, recipe_id), err |-> "none"]
    /\ UNCHANGED <<store_vars, files, now, ui_vars>>

\* query_all_recipes()
QueryAll ==
    /\ \E rows \in query_all_recipes(recettes) :
           last' = [op |-> "query_all_recipes", args |-> <<>>, ret |-> rows,
                    err |-> "none"]
    /\ UNCHANGED <<store_vars, files, now, ui_vars>>

\* search_recipes_by_text(text, category_filter)
Search(text, category_filter) ==
    /\ \E rows \in search_recipes_by_text(recettes, text, category_filter) :
           last' = [op |-> "search_recipes_by_text", args |-> <<text, category_filter>>,
                    ret |-> rows, err |-> "none"]
    /\ UNCHANGED <<store_vars, files, now, ui_vars>>

(***************************************************************************)
(* The state after construction.                                           *)
(***************************************************************************)
\* clear_form: no recipe, no image, empty inputs, the first category.
EmptyForm ==
    [name |-> <<>>, ingredients |-> <<>>, steps |-> <<>>, prep_time |-> <<>>,
     category |-> CATEGORIES[1]]

\* The images directory is empty, the other files are there.
InitFiles == [p \in AllPaths |-> IF p \in ManagedPaths THEN "absent" ELSE Content(p)]

\* load_recipes: the items of the list once it is filled with rows.
Items(rows) == { rows[i] : i \in DOMAIN rows }

\* RecetteApp.__init__ over the table recettes.db holds.
InitOver(table) ==
    /\ recettes = table
    /\ sqlite_seq = MaxRowid(table)
    /\ returned_ids = RowIds(table)
    /\ files = InitFiles
    /\ now = 0
    /\ current_recipe_id = 0
    /\ current_image_path = PathNone
    /\ form = EmptyForm
    /\ \E rows \in query_all_recipes(table) : list_items = Items(rows)
    /\ current_item = 0
    /\ last = [op |-> "__init__", args |-> <<>>, ret |-> 0, err |-> "none"]

\* A new recettes.db: init_db creates the empty table.
InitStore == InitOver({})

NextStore ==
    \/ \E f \in RecipeInputs \cup {NamelessInput} : AddRecipe(f)
    \/ \E id \in 1..(MaxId + 1), f \in RecipeInputs \cup {NamelessInput} :
           UpdateRecipe(id, f)
    \/ \E id \in 1..(MaxId + 1) : DeleteRecipe(id)
    \/ \E id \in 1..(MaxId + 1) : GetRecipe(id)
    \/ QueryAll
    \/ \E text \in SearchTexts, cf \in SearchFilters : Search(text, cf)

\* The database helpers called in any order on a new database.
SpecStore == InitStore /\ [][NextStore]_vars

(***************************************************************************)
(* The filesystem calls of the handlers.                                   *)
(***************************************************************************)
\* A path that is neither None nor "".
Truthy(path) == path # PathNone

\* os.path.exists(path)
Exists(fs, path) == path \in DOMAIN fs /\ fs[path] # "absent"

\* os.path.commonpath([os.path.abspath(path), IMAGES_DIR]) == IMAGES_DIR
InManaged(path) == path.dir = IMAGES_DIR

\* The removal without the test of the directory.
RemoveIfManaged_AnyDir(fs, path) ==
    IF Truthy(path) /\ Exists(fs, path) THEN [fs EXCEPT ![path] = "absent"] ELSE fs

\* The removal that never happens.
RemoveIfManaged_Never(fs, path) == fs

\* The guarded os.remove of on_import_image, on_remove_image and on_delete:
\* the file goes only if the path is set, exists and lies in IMAGES_DIR.
RemoveIfManaged(fs, path) ==
    IF Truthy(path) /\ Exists(fs, path) /\ InManaged(path)
    THEN [fs EXCEPT ![path] = "absent"]
    ELSE fs

\* How shutil.copy(fname, dest) may end: the whole file copied; refused
\* before dest is created (fname unreadable, dest not writable); or stopped
\* part of the way (disk full), dest holding what was written until then.
CopyOutcomes == {"copied", "refused", "partial"}

\* The filesystem after shutil.copy(fname, dest).
CopyFile(fs, fname, dest, outcome) ==
    CASE outcome = "copied" -> [fs EXCEPT ![dest] = fs[fname]]
      [] outcome = "partial" -> [fs EXCEPT ![dest] = "partial"]
      [] OTHER -> fs

(***************************************************************************)
(* RecetteApp.                                                             *)
(***************************************************************************)
\* str.strip(): white space off both ends.
IsSpace(c) == c \in {9, 10, 11, 12, 13, 28, 29, 30, 31, 32, 133, 160}

RECURSIVE StripLeft(_)
StripLeft(s) == IF s # <<>> /\ IsSpace(Head(s)) THEN StripLeft(Tail(s)) ELSE s

RECURSIVE StripRight(_)
StripRight(s) ==
    IF s # <<>> /\ IsSpace(s[Len(s)]) THEN StripRight(SubSeq(s, 1, Len(s) - 1)) ELSE s

Strip(s) == StripRight(StripLeft(s))

\* row[k] or ""
OrEmpty(x) == IF x = NULL THEN <<>> ELSE x

\* The text of a list item, f"{r[1]}  -  [{r[2]}]", up to its category
\* (8212 is the dash, 91 the bracket).
ItemText(r) == r[2] \o <<32, 32, 8212, 32, 32, 91>>

StartsWith(text, prefix) ==
    Len(prefix) <= Len(text) /\ SubSeq(text, 1, Len(prefix)) = prefix

\* _select_recipe_by_name over the list as load_recipes filled it: the id
\* of the first row whose text starts with name, or none (clear() left the
\* list without a current item).
SelectByName(items, name) ==
    LET hits == { i \in DOMAIN items : StartsWith(ItemText(items[i]), name) }
    IN  IF hits = {} THEN 0
        ELSE items[CHOOSE i \in hits : \A j \in hits : i <= j][1]

\* The value of last after a step that called none of the database helpers
\* and none of the handlers that write the table or the files.
NoCall == [op |-> "none", args |-> <<>>, ret |-> 0, err |-> "none"]

\* What the user may have typed into the inputs.
FormInputs ==
    { [name |-> <<32, 97>>, ingredients |-> <<98, 32>>, steps |-> <<>>,
       prep_time |-> <<50>>, category |-> "Plat"] }

\* The user edits the inputs (input_name, input_ingredients, ...).
EditForm(f) ==
    /\ form' = f
    /\ last' = NoCall
    /\ UNCHANGED <<store_vars, files, now, current_recipe_id, current_image_path,
                   list_items, current_item>>

\* Time passes.
Tick ==
    /\ now < MaxClock
    /\ now' = now + 1
    /\ last' = NoCall
    /\ UNCHANGED <<store_vars, files, ui_vars>>

\* on_recipe_select: the user clicks an item of the list.
on_recipe_select(item) ==
    LET row == get_recipe_by_id(recettes, item[1])
    IN  /\ current_item' = item[1]
        /\ IF row = NoRow
           THEN UNCHANGED <<current_recipe_id, current_image_path, form>>
           ELSE /\ current_recipe_id' = row[1]
                /\ form' = [name |-> OrEmpty(row[2]),
                            ingredients |-> OrEmpty(row[3]),
                            steps |-> OrEmpty(row[4]),
                            prep_time |-> OrEmpty(row[5]),
                            category |-> IF \E k \in DOMAIN CATEGORIES : CATEGORIES[k] = row[6]
                                         THEN row[6] ELSE CATEGORIES[1]]
                /\ current_image_path' = row[7]
        /\ last' = NoCall
        /\ UNCHANGED <<store_vars, files, now, list_items>>

\* on_search_changed: the search text or the category filter changed.
on_search_changed(input, category) ==
    LET text == Strip(input)
        cf == IF category # "Tout" THEN category ELSE NoFilter
    IN  /\ \E rows \in search_recipes_by_text(recettes, text, cf) :
               list_items' = Items(rows)
        /\ current_item' = 0
        /\ last' = NoCall
        /\ UNCHANGED <<store_vars, files, now, current_recipe_id,
                       current_image_path, form>>

\* on_import_image with the file dialog cancelled.
on_import_image_cancelled ==
    /\ last' = NoCall
    /\ UNCHANGED <<store_vars, files, now, ui_vars>>

\* The import that removes the old file before it copies the new one.
on_import_image_RemovesFirst(fname, outcome) ==
    LET dest == ManagedPath(now, fname.ext)
        removed == RemoveIfManaged(files, current_image_path)
    IN  /\ files' = CopyFile(removed, fname, dest, outcome)
        /\ IF outcome = "copied"
           THEN /\ current_image_path' = dest
                /\ last' = [op |-> "on_import_image", args |-> <<fname, outcome>>,
                            ret |-> dest, err |-> "none"]
           ELSE /\ UNCHANGED current_image_path
                /\ last' = [op |-> "on_import_image", args |-> <<fname, outcome>>,
                            ret |-> PathNone, err |-> "critical"]
        /\ UNCHANGED <<store_vars, now, current_recipe_id, form, list_items, current_item>>

\* on_import_image: the user picks fname, and the copy ends as outcome.
on_import_image(fname, outcome) ==
    LET dest == ManagedPath(now, fname.ext)
        copied == CopyFile(files, fname, dest, outcome)
    IN  /\ IF outcome = "copied"
           THEN /\ files' = RemoveIfManaged(copied, current_image_path)
                /\ current_image_path' = dest
                /\ last' = [op |-> "on_import_image", args |-> <<fname, outcome>>,
                            ret |-> dest, err |-> "none"]
           ELSE /\ files' = copied
                /\ UNCHANGED current_image_path
                /\ last' = [op |-> "on_import_image", args |-> <<fname, outcome>>,
                            ret |-> PathNone, err |-> "critical"]
        /\ UNCHANGED <<store_vars, now, current_recipe_id, form, list_items, current_item>>

\* on_remove_image
on_remove_image ==
    /\ IF ~Truthy(current_image_path)
       THEN /\ last' = [op |-> "on_remove_image", args |-> <<>>, ret |-> 0,
                        err |-> "information"]
            /\ UNCHANGED <<files, current_image_path>>
       ELSE /\ files' = RemoveIfManaged(files, current_image_path)
            /\ current_image_path' = PathNone
            /\ last' = [op |-> "on_remove_image", args |-> <<>>, ret |-> 0,
                        err |-> "none"]
    /\ UNCHANGED <<store_vars, now, current_recipe_id, form, list_items, current_item>>

\* clear_form, as on_new and load_recipes call it.
ClearForm ==
    /\ current_recipe_id' = 0
    /\ current_image_path' = PathNone
    /\ form' = EmptyForm

\* on_new: clearSelection() leaves the list's current item as it is.
on_new ==
    /\ ClearForm
    /\ last' = NoCall
    /\ UNCHANGED <<store_vars, files, now, list_items, current_item>>

\* on_save
on_save ==
    LET name == Strip(form.name)
        f == [name |-> name, ingredients |-> Strip(form.ingredients),
              steps |-> Strip(form.steps), prep_time |-> Strip(form.prep_time),
              category |-> form.category, image_path |-> current_image_path]
    IN  IF name = <<>>
        THEN /\ last' = NoCall
             /\ UNCHANGED <<store_vars, files, now, ui_vars>>
        ELSE /\ IF current_recipe_id # 0
                THEN /\ recettes' = UpdateRows(recettes, current_recipe_id, f)
                     /\ UNCHANGED <<sqlite_seq, returned_ids>>
                     /\ last' = [op |-> "on_save", args |-> <<>>, ret |-> 0,
                                 err |-> "none"]
                ELSE LET new_id == NextRowid(recettes, sqlite_seq)
                     IN  /\ sqlite_seq < MaxId
                         /\ recettes' = InsertRow(recettes, new_id, f)
                         /\ sqlite_seq' = new_id
                         /\ returned_ids' = returned_ids \cup {new_id}
                         /\ last' = [op |-> "on_save", args |-> <<>>, ret |-> 0,
                                     err |-> "none"]
             /\ \E rows \in query_all_recipes(recettes') :
                    /\ list_items' = Items(rows)
                    /\ current_item' = SelectByName(rows, name)
             /\ ClearForm
             /\ UNCHANGED <<files, now>>

\* on_delete with no current item in the list.
on_delete_nothing ==
    /\ current_item = 0
    /\ last' = NoCall
    /\ UNCHANGED <<store_vars, files, now, ui_vars>>

\* on_delete of the list's current item; reply is the user's answer.
on_delete(reply) ==
    /\ current_item # 0
    /\ LET recipe_id == current_item
           img == DeletedImage(recettes, recipe_id)
       IN  IF reply = "Yes"
           THEN /\ recettes' = DeleteRows(recettes, recipe_id)
                /\ files' = RemoveIfManaged(files, img)
                /\ \E rows \in query_all_recipes(recettes') : list_items' = Items(rows)
                /\ ClearForm
                /\ current_item' = 0
                /\ last' = [op |-> "on_delete", args |-> <<>>, ret |-> img,
                            err |-> "none"]
                /\ UNCHANGED <<sqlite_seq, returned_ids, now>>
           ELSE /\ last' = NoCall
                /\ UNCHANGED <<store_vars, files, now, ui_vars>>

\* The tables recettes.db may hold when the application starts: none yet,
\* or a row put there with the path of a file outside the images directory.
InitialTables ==
    { {},
      { NewRow(1, CHOOSE f \in RecipeInputs : f.image_path = HostsFile) } }

Init == \E table \in InitialTables : InitOver(table)

Next ==
    \/ \E f \in FormInputs : EditForm(f)
    \/ Tick
    \/ \E item \in list_items : on_recipe_select(item)
    \/ \E input \in {<<32>>}, category \in {"Tout"} : on_search_changed(input, category)
    \/ on_import_image_cancelled
    \/ \E fname \in SourceFiles : on_import_image(fname, "copied")
    \/ on_remove_image
    \/ on_new
    \/ on_save
    \/ on_delete_nothing
    \/ \E reply \in {"Yes", "No"} : on_delete(reply)

\* The application in use, on a filesystem that refuses nothing.
Spec == Init /\ [][Next]_vars

NextFaults ==
    \/ Next
    \/ \E fname \in SourceFiles, outcome \in CopyOutcomes \ {"copied"} :
           on_import_image(fname, outcome)

\* The application in use, on a filesystem on which a copy may fail.
SpecFaults == Init /\ [][NextFaults]_vars

\* The handlers but for the typing into the inputs: no recipe is added, the
\* recipes of the table are selected, given images, saved and deleted.
NextReplace ==
    \/ Tick
    \/ \E item \in list_items : on_recipe_select(item)
    \/ \E input \in {<<32>>}, category \in {"Tout"} : on_search_changed(input, category)
    \/ on_import_image_cancelled
    \/ \E fname \in SourceFiles, outcome \in CopyOutcomes : on_import_image(fname, outcome)
    \/ on_remove_image
    \/ on_new
    \/ on_save
    \/ on_delete_nothing
    \/ \E reply \in {"Yes", "No"} : on_delete(reply)

\* The images of the recipes a table holds being replaced, on a filesystem
\* on which a copy may fail.
SpecReplace == Init /\ [][NextReplace]_vars

(***************************************************************************)
(* Properties of the database helpers, under SpecStore.                    *)
(***************************************************************************)
\* C1: after add_recipe_db(name, ingredients, steps, prep_time, category,
\* image_path) returned an id, get_recipe_by_id of that id is the row with
\* that id and exactly those six values.
C1_RoundTrip ==
    (last.op = "add_recipe_db" /\ last.err = "none") =>
        LET f == last.args[1]
        IN  get_recipe_by_id(recettes, last.ret) =
                <<last.ret, f.name, f.ingredients, f.steps, f.prep_time,
                  f.category, f.image_path>>

\* C1 witness: a recipe with a NULL text and an image path was added to a
\* table that already held another recipe.
C1_Witness ==
    /\ last.op = "add_recipe_db"
    /\ last.err = "none"
    /\ last.args[1].ingredients = NULL
    /\ last.args[1].image_path # PathNone
    /\ Cardinality(recettes) >= 2

\* C2: delete_recipe_db(id) of a stored row returns that row's image_path
\* and removes that row and no other; of an id that is not stored (a second
\* delete among them) it returns None and leaves the table as it was.
C2_IdempotentDelete ==
    [][ last'.op = "delete_recipe_db" =>
          LET id == last'.args[1]
          IN  IF id \in RowIds(recettes)
              THEN LET row == CHOOSE r \in recettes : r.id = id
                   IN  /\ last'.ret = row.image_path
                       /\ recettes' = recettes \ {row}
              ELSE /\ last'.ret = PathNone
                   /\ recettes' = recettes ]_vars

\* C2 witness: a delete returned an image path and left another row behind.
C2_Witness ==
    /\ last.op = "delete_recipe_db"
    /\ last.ret # PathNone
    /\ recettes # {}

\* Lower case as Unicode has it: the ASCII capitals and the Latin-1 ones.
UnicodeLower(c) ==
    IF c \in 65..90 \/ (c \in 192..222 /\ c # 215) THEN c + 32 ELSE c

\* a sorts strictly before b when case is ignored.
CaseInsensitiveLess(a, b) ==
    \E i \in 1..(Min(Len(a), Len(b)) + 1) :
        /\ \A k \in 1..(i - 1) : UnicodeLower(a[k]) = UnicodeLower(b[k])
        /\ \/ i > Len(a) /\ i <= Len(b)
           \/ i <= Len(a) /\ i <= Len(b) /\ UnicodeLower(a[i]) < UnicodeLower(b[i])

\* C3: the rows query_all_recipes() and search_recipes_by_text(text, filter)
\* return are sorted by name with case ignored, whatever the names.
C3_SortedCaseInsensitive ==
    last.op \in {"query_all_recipes", "search_recipes_by_text"} =>
        \A i, j \in DOMAIN last.ret :
            i < j => ~CaseInsensitiveLess(last.ret[j][2], last.ret[i][2])

\* text occurs in x as a substring, ASCII letters in either case (LIKE's own
\* comparison of ordinary characters).
Contains(x, text) ==
    /\ x # NULL
    /\ \E i \in 0..(Len(x) - Len(text)) :
           \A k \in 1..Len(text) :
               \/ x[i + k] = text[k]
               \/ /\ x[i + k] < 128
                  /\ text[k] < 128
                  /\ NocaseFold(x[i + k]) = NocaseFold(text[k])

\* C4: search_recipes_by_text(text, category_filter) returns exactly the rows
\* in which text is a substring of name, ingredients or steps, and whose
\* category is the filter when one other than "Tout" is given.
C4_SearchIsSubstringMatch ==
    last.op = "search_recipes_by_text" =>
        LET text == last.args[1]
            cf == last.args[2]
        IN  { last.ret[i][1] : i \in DOMAIN last.ret } =
                { r.id : r \in
                    { q \in recettes :
                        /\ \/ Contains(q.name, text)
                           \/ Contains(q.ingredients, text)
                           \/ Contains(q.steps, text)
                        /\ (cf # NoFilter /\ cf # "Tout") => q.category = cf } }

\* C5: update_recipe_db of an id that is not stored raises nothing and
\* leaves the table as it was.
C5_UpdateNoOp ==
    [][ (last'.op = "update_recipe_db" /\ last'.args[1] \notin RowIds(recettes)) =>
            /\ last'.err = "none"
            /\ recettes' = recettes ]_vars

\* C5 witness: an update of an id that is not stored, on a table with rows,
\* one of them with other values than the update's.
C5_Witness ==
    /\ last.op = "update_recipe_db"
    /\ last.args[1] \notin RowIds(recettes)
    /\ \E r \in recettes : r.name # last.args[2].name

\* C9: add_recipe_db never returns an id it returned before, and
\* update_recipe_db changes no row's id: the same ids are stored after it,
\* the rows of the other ids as they were.
C9_IdStability ==
    [][ /\ (last'.op = "add_recipe_db" /\ last'.err = "none") =>
              /\ last'.ret \notin returned_ids
              /\ last'.ret \notin RowIds(recettes)
        /\ last'.op = "update_recipe_db" =>
              /\ RowIds(recettes') = RowIds(recettes)
              /\ \A r \in recettes :
                     \E q \in recettes' :
                        /\ q.id = r.id
                        /\ r.id # last'.args[1] => q = r ]_vars

\* C9 witness: an id was returned after the row with the highest id had
\* been deleted.
C9_Witness ==
    /\ last.op = "add_recipe_db"
    /\ last.err = "none"
    /\ \E d \in returned_ids :
           /\ d < last.ret
           /\ d \notin RowIds(recettes)
           /\ \A r \in recettes : r.id = last.ret \/ r.id < d

(***************************************************************************)
(* Properties of the application, under Spec and SpecFaults.               *)
(***************************************************************************)
\* A path the guarded os.remove leaves alone on the filesystem fs: not set,
\* outside the images directory, or with no file behind it.
NotRemovable(fs, path) == ~Truthy(path) \/ ~InManaged(path) \/ ~Exists(fs, path)

C7_AssetUniqueness ==
    [][ ( /\ last'.op = "on_import_image"
          /\ last'.err = "none"
          /\ Truthy(current_image_path)
          /\ InManaged(current_image_path)
          /\ Exists(files, current_image_path) ) =>
            /\ last'.ret # current_image_path
            /\ Exists(files', current_image_path)
            /\ Exists(files', last'.ret) ]_vars

C10_ImportAllOrNothing ==
    [][ (last'.op = "on_import_image" /\ last'.args[2] # "copied") =>
            /\ last'.err = "critical"
            /\ files' = files
            /\ current_image_path' = current_image_path ]_vars

\* C11: on_import_image copies the new file before it touches the old one
\* and removes the old one only once the copy is whole: after a copy that
\* failed the form's image is the path it was, the file at that path is
\* still there (as it was, unless it is the copy's own destination) and no
\* other file but the destination changed; after a copy that succeeded to
\* another path, the new file holds what the source holds.
C11_ReplaceOrdering ==
    [][ last'.op = "on_import_image" =>
            LET fname == last'.args[1]
                dest == ManagedPath(now, fname.ext)
                old == current_image_path
            IN  IF last'.err = "none"
                THEN /\ current_image_path' = dest
                     /\ old # dest => files'[dest] = files[fname]
                     /\ \A p \in AllPaths \ {dest, old} : files'[p] = files[p]
                ELSE /\ current_image_path' = old
                     /\ \A p \in AllPaths \ {dest} : files'[p] = files[p]
                     /\ (Truthy(old) /\ Exists(files, old)) => Exists(files', old) ]_vars

\* C11 witness: an import failed while the form showed a stored recipe whose
\* image is a file of the images directory, and left part of a copy behind.
C11_Witness ==
    /\ last.op = "on_import_image"
    /\ last.err = "critical"
    /\ current_recipe_id # 0
    /\ InManaged(current_image_path)
    /\ Exists(files, current_image_path)
    /\ \E r \in recettes : r.id = current_recipe_id /\ r.image_path = current_image_path
    /\ \E p \in ManagedPaths : files[p] = "partial"

\* Every stored recipe with an image path has a file of the images
\* directory at that path.
ImagesInPlace ==
    \A r \in recettes :
        Truthy(r.image_path) => InManaged(r.image_path) /\ Exists(files, r.image_path)

\* C12: no user action on a filesystem without faults takes a table in
\* which every recipe with an image path has a file of the images directory
\* at that path to one in which some recipe has not.
C12_NoDanglingReference ==
    [][ ImagesInPlace => ImagesInPlace' ]_vars

====
